---- MODULE Spec2Model ----
(***************************************************************************)
(* Model of the System-Monitor main application (src/src/main.rs) and of   *)
(* the shared sampling library (src/src/lib.rs), all optional features     *)
(* (network, battery, disk) enabled.                                       *)
(*                                                                         *)
(* The iced runtime delivers one Message at a time to `update`; each       *)
(* action below is one complete call of `update` (or of `new`, for Init).  *)
(*                                                                         *)
(* f32 values are modelled as exact reduced fractions <<n, d>>; <<0, 0>>   *)
(* stands for NaN and <<1, 0>> for infinity (the results of an f32         *)
(* division by zero).  f32 rounding is not modelled.                       *)
(* u64 values are modelled as naturals; the operating-system inputs are    *)
(* chosen small enough that no u64 sum overflows.  In Spec and SpecLong    *)
(* every volume the operating system reports has available_space <=        *)
(* total_space; SpecDisk calls get_disk_usage on volumes without that.     *)
(***************************************************************************)
EXTENDS Integers, Sequences, FiniteSets, TLC

VARIABLES
    state,      \* the State struct of main.rs (lines 33-67)
    os,         \* the operating system's counters, read through sysinfo / pmset
    msg,        \* the Message last handled by update ("Start" after new)
    ticks,      \* number of Message::Tick handled so far
    sampled,    \* the readings of every sampling event so far, oldest first
    call        \* a single call of a library or drawing function: its input and result

vars == <<state, os, msg, ticks, sampled, call>>

\* ------------------------------------------------------------------------
\* Bounds of the model
\* ------------------------------------------------------------------------
MaxTicks == 3
MaxTicksLong == 125
MaxLines == 2
MaxParts == 1
MaxSamples == 3
MaxVolumes == 2
MaxCapacity == 2

\* ------------------------------------------------------------------------
\* Program constants
\* ------------------------------------------------------------------------
HISTORY == 120
GiB == 1073741824
KiB == 1024

Tab == {"System", "Network", "Power"}

\* ------------------------------------------------------------------------
\* f32 arithmetic on reduced fractions
\* ------------------------------------------------------------------------
RECURSIVE GCD(_, _)
GCD(a, b) == IF b = 0 THEN a ELSE GCD(b, a % b)

NaN == <<0, 0>>
Inf == <<1, 0>>
Zero == <<0, 1>>

IsFinite(x) == x[2] # 0

Norm(n, d) ==
    IF d = 0 THEN (IF n = 0 THEN NaN ELSE Inf)
    ELSE LET g == GCD(n, d) IN <<n \div g, d \div g>>

as_f32(u) == <<u, 1>>

F32Mul(a, b) ==
    IF ~IsFinite(a) \/ ~IsFinite(b) THEN NaN
    ELSE LET g1 == GCD(a[1], b[2])
             g2 == GCD(b[1], a[2])
         IN  Norm((a[1] \div g1) * (b[1] \div g2), (a[2] \div g2) * (b[2] \div g1))

F32Div(a, b) ==
    IF ~IsFinite(a) \/ ~IsFinite(b) THEN NaN
    ELSE IF b[1] = 0 THEN (IF a[1] = 0 THEN NaN ELSE Inf)
    ELSE F32Mul(a, <<b[2], b[1]>>)

\* a - b, for finite a and b
F32Sub(a, b) == Norm(a[1] * b[2] - b[1] * a[2], a[2] * b[2])

\* a <= b and a < b, for finite a and b
F32Le(a, b) == a[1] * b[2] <= b[1] * a[2]
F32Lt(a, b) == a[1] * b[2] < b[1] * a[2]

\* f32::clamp(self, min, max), for min <= max
clamp(v, min, max) == IF F32Lt(v, min) THEN min ELSE IF F32Lt(max, v) THEN max ELSE v

RECURSIVE SumSeq(_)
SumSeq(s) == IF s = <<>> THEN 0 ELSE s[1] + SumSeq(Tail(s))

Min(a, b) == IF a <= b THEN a ELSE b

Last(s) == s[Len(s)]

\* ------------------------------------------------------------------------
\* The telemetry provider (sysinfo handles held in State)
\* ------------------------------------------------------------------------
\* sys.refresh_cpu_usage(); sys.refresh_memory(): the handle takes the
\* operating system's current values.
refresh_sys(o) ==
    [cpu_usage |-> o.cpu, used_memory |-> o.used_memory, total_memory |-> o.total_memory]

\* Networks::new_with_refreshed_list(): one entry per interface, holding the
\* cumulative counters and the counters of the refresh before.
new_with_refreshed_list(o) ==
    [i \in 1..Len(o.net) |->
        [rx_bytes |-> o.net[i].rx, old_rx |-> o.net[i].rx,
         tx_bytes |-> o.net[i].tx, old_tx |-> o.net[i].tx]]

\* networks.refresh(true): the current counters become the old ones and the
\* operating system's counters the current ones.  A refresh that fails leaves
\* the handle as it was.
networks_refresh(networks, o, ok) ==
    IF ok
    THEN [i \in 1..Len(networks) |->
            [rx_bytes |-> o.net[i].rx, old_rx |-> networks[i].rx_bytes,
             tx_bytes |-> o.net[i].tx, old_tx |-> networks[i].tx_bytes]]
    ELSE networks

\* disks.refresh(true) / Disks::new_with_refreshed_list()
disks_refresh(disks, o, ok) == IF ok THEN o.disks ELSE disks

\* NetworkData::received / transmitted: bytes since the refresh before
received(data) == data.rx_bytes - data.old_rx
transmitted(data) == data.tx_bytes - data.old_tx
\* NetworkData::total_received / total_transmitted: cumulative bytes
total_received(data) == data.rx_bytes
total_transmitted(data) == data.tx_bytes

\* ------------------------------------------------------------------------
\* lib.rs
\* ------------------------------------------------------------------------
DefaultBattery == <<as_f32(100), FALSE>>

\* The first token of a line that ends with '%' or "%;" and parses as f32
\* (0 when the line has none).
RECURSIVE FirstPercent(_)
FirstPercent(parts) ==
    IF parts = <<>> THEN 0
    ELSE IF parts[1].ends_percent /\ parts[1].parses THEN 1
    ELSE LET r == FirstPercent(Tail(parts)) IN IF r = 0 THEN 0 ELSE r + 1

\* The first line that yields a percentage (0 when there is none).
RECURSIVE FirstBatteryLine(_)
FirstBatteryLine(lines) ==
    IF lines = <<>> THEN 0
    ELSE IF lines[1].internal_battery /\ lines[1].has_percent
            /\ FirstPercent(lines[1].parts) # 0 THEN 1
    ELSE LET r == FirstBatteryLine(Tail(lines)) IN IF r = 0 THEN 0 ELSE r + 1

\* Variant of get_battery_info whose fallback reports the power source
get_battery_info_ac(pmset) ==
    IF ~pmset.macos THEN DefaultBattery
    ELSE IF ~pmset.command_ok \/ ~pmset.utf8 THEN DefaultBattery
    ELSE LET l == FirstBatteryLine(pmset.lines) IN
         IF l = 0 THEN <<as_f32(100), pmset.ac_power>>
         ELSE LET line == pmset.lines[l]
                  part == line.parts[FirstPercent(line.parts)]
                  charging == line.charging /\ ~line.discharging
              IN  <<as_f32(part.value), charging \/ pmset.ac_power>>

get_battery_info(pmset) ==
    IF ~pmset.macos THEN DefaultBattery
    ELSE IF ~pmset.command_ok \/ ~pmset.utf8 THEN DefaultBattery
    ELSE LET l == FirstBatteryLine(pmset.lines) IN
         IF l = 0 THEN DefaultBattery
         ELSE LET line == pmset.lines[l]
                  part == line.parts[FirstPercent(line.parts)]
                  charging == line.charging /\ ~line.discharging
              IN  <<as_f32(part.value), charging \/ pmset.ac_power>>

\* The get_battery_info the crate exports: battery::get_battery_info with the
\* battery feature, the fixed default without it.
lib_get_battery_info(feature_battery, pmset) ==
    IF feature_battery THEN get_battery_info(pmset) ELSE DefaultBattery

\* Variant of network_deltas whose tx sum reads the rx counters
network_deltas_crossed(networks) ==
    <<SumSeq([i \in 1..Len(networks) |-> received(networks[i])]),
      SumSeq([i \in 1..Len(networks) |-> received(networks[i])])>>

network_deltas(networks) ==
    <<SumSeq([i \in 1..Len(networks) |-> received(networks[i])]),
      SumSeq([i \in 1..Len(networks) |-> transmitted(networks[i])])>>

network_totals(networks) ==
    <<F32Div(as_f32(SumSeq([i \in 1..Len(networks) |-> total_received(networks[i])])), as_f32(GiB)),
      F32Div(as_f32(SumSeq([i \in 1..Len(networks) |-> total_transmitted(networks[i])])), as_f32(GiB))>>

\* Variant of get_disk_usage without the total_space > 0 guard
get_disk_usage_unguarded(disks) ==
    LET total_space == SumSeq([i \in 1..Len(disks) |-> disks[i].total_space])
        used_space == SumSeq([i \in 1..Len(disks) |->
                                disks[i].total_space - disks[i].available_space])
        percent == F32Mul(F32Div(as_f32(used_space), as_f32(total_space)), as_f32(100))
    IN  <<percent, used_space \div GiB, total_space \div GiB>>

\* Variant of get_disk_usage that rounds the gigabytes up
get_disk_usage_ceil(disks) ==
    LET total_space == SumSeq([i \in 1..Len(disks) |-> disks[i].total_space])
        used_space == SumSeq([i \in 1..Len(disks) |->
                                disks[i].total_space - disks[i].available_space])
        percent == IF total_space > 0
                   THEN F32Mul(F32Div(as_f32(used_space), as_f32(total_space)), as_f32(100))
                   ELSE Zero
        ceil(x) == (x \div GiB) + (IF x % GiB > 0 THEN 1 ELSE 0)
    IN  <<percent, ceil(used_space), ceil(total_space)>>

\* Variant of get_disk_usage that adds up the available space as used
get_disk_usage_free(disks) ==
    LET total_space == SumSeq([i \in 1..Len(disks) |-> disks[i].total_space])
        used_space == SumSeq([i \in 1..Len(disks) |-> disks[i].available_space])
        percent == IF total_space > 0
                   THEN F32Mul(F32Div(as_f32(used_space), as_f32(total_space)), as_f32(100))
                   ELSE Zero
    IN  <<percent, used_space \div GiB, total_space \div GiB>>

get_disk_usage(disks) ==
    LET total_space == SumSeq([i \in 1..Len(disks) |-> disks[i].total_space])
        used_space == SumSeq([i \in 1..Len(disks) |->
                                disks[i].total_space - disks[i].available_space])
        percent == IF total_space > 0
                   THEN F32Mul(F32Div(as_f32(used_space), as_f32(total_space)), as_f32(100))
                   ELSE Zero
        total_gb == total_space \div GiB
        used_gb == used_space \div GiB
    IN  <<percent, used_gb, total_gb>>

\* get_disk_usage on u64: `disk.total_space() - disk.available_space()`
\* underflows for a volume with available_space > total_space.  A build with
\* overflow checks (debug) panics there; a build without them (release) wraps
\* modulo 2^64, in the subtraction and in the `+=` after it, so that
\* used_space ends as the sum of the differences modulo 2^64.
\* TwoPow64Minus(d) stands for the u64 value 2^64 - d, Huge for an f32 far
\* above 100.
Underflows(disks) ==
    \E i \in 1..Len(disks) : disks[i].available_space > disks[i].total_space

TwoPow64Minus(d) == [two_pow_64_minus |-> d]
Huge == [f32_above |-> 100]

Panicked == [status |-> "panicked", wrapped |-> FALSE, value |-> <<>>]
Returned(value, wrapped) == [status |-> "returned", wrapped |-> wrapped, value |-> value]

get_disk_usage_u64(disks, overflow_checks) ==
    LET total_space == SumSeq([i \in 1..Len(disks) |-> disks[i].total_space])
        differences == SumSeq([i \in 1..Len(disks) |->
                                 disks[i].total_space - disks[i].available_space])
    IN  IF ~Underflows(disks) THEN Returned(get_disk_usage(disks), FALSE)
        ELSE IF overflow_checks THEN Panicked
        ELSE IF differences >= 0 THEN Returned(get_disk_usage(disks), TRUE)
        ELSE Returned(<<IF total_space > 0 THEN Huge ELSE Zero,
                        TwoPow64Minus(-differences),
                        total_space \div GiB>>, TRUE)

\* ------------------------------------------------------------------------
\* main.rs: State
\* ------------------------------------------------------------------------
\* Vec::drain(lo..hi): removes the elements at 0-based positions lo..hi-1
drain(v, lo, hi) == SubSeq(v, 1, lo) \o SubSeq(v, hi + 1, Len(v))

\* Vec::drain(lo..hi) panics when the range does not lie within the vector
drain_panics(v, lo, hi) == lo > hi \/ hi > Len(v)

\* The body of trim_history, with the constant Self::HISTORY it compares
\* against and subtracts as the parameter capacity.
\* Variant: a capacity of 0 is not trimmed to
trim_history_at_nonzero(history, capacity) ==
    IF Len(history) > capacity /\ capacity > 0
    THEN LET extra == Len(history) - capacity IN drain(history, 0, extra)
    ELSE history

trim_history_at(history, capacity) ==
    IF Len(history) > capacity
    THEN LET extra == Len(history) - capacity IN drain(history, 0, extra)
    ELSE history

\* Variants of trim_history with a plausible slip each
trim_history_lax(history) ==
    IF Len(history) > HISTORY + 1
    THEN LET extra == Len(history) - HISTORY IN drain(history, 0, extra)
    ELSE history

trim_history_tail(history) ==
    IF Len(history) > HISTORY
    THEN drain(history, HISTORY, Len(history))
    ELSE history

trim_history_greedy(history) ==
    IF Len(history) >= HISTORY
    THEN LET extra == Len(history) - HISTORY + 1 IN drain(history, 0, extra)
    ELSE history

trim_history_pairs(history) ==
    IF Len(history) > HISTORY
    THEN LET extra == Len(history) - HISTORY + 1 IN drain(history, 0, extra)
    ELSE history

trim_history(history) == trim_history_at(history, HISTORY)

\* history.push(value); Self::trim_history(&mut history), as push_samples does
\* for each history, for a capacity in place of Self::HISTORY
push_then_trim(history, value, capacity) ==
    LET pushed == Append(history, value)
    IN  IF Len(pushed) > capacity /\ drain_panics(pushed, 0, Len(pushed) - capacity)
        THEN Panicked
        ELSE Returned(trim_history_at(pushed, capacity), FALSE)

\* Variant of push_samples that samples only what the selected tab shows
push_samples_visible(self) ==
    LET ram_pct == IF self.total_mem_mb > 0
                   THEN F32Mul(F32Div(as_f32(self.used_mem_mb), as_f32(self.total_mem_mb)),
                               as_f32(100))
                   ELSE Zero
        shown(tab, h, v) == IF self.current_tab = tab THEN trim_history(Append(h, v)) ELSE h
    IN  [self EXCEPT
            !.cpu_history = shown("System", @, self.cpu),
            !.ram_history = shown("System", @, ram_pct),
            !.down_history = shown("Network", @, self.down_mbps),
            !.up_history = shown("Network", @, self.up_mbps),
            !.battery_history = shown("Power", @, self.battery_percent),
            !.disk_history = shown("System", @, self.disk_percent)]

push_samples(self) ==
    LET ram_percent == IF self.total_mem_mb > 0
                       THEN F32Mul(F32Div(as_f32(self.used_mem_mb), as_f32(self.total_mem_mb)),
                                   as_f32(100))
                       ELSE Zero
    IN  [self EXCEPT
            !.cpu_history = trim_history(Append(@, self.cpu)),
            !.ram_history = trim_history(Append(@, ram_percent)),
            !.down_history = trim_history(Append(@, self.down_mbps)),
            !.up_history = trim_history(Append(@, self.up_mbps)),
            !.battery_history = trim_history(Append(@, self.battery_percent)),
            !.disk_history = trim_history(Append(@, self.disk_percent))]

\* new, up to the State literal (before the first push_samples)
new_State(o) ==
    LET sys == refresh_sys(o)
        networks == networks_refresh(new_with_refreshed_list(o), o, TRUE)
        disks == disks_refresh(<<>>, o, TRUE)
        battery == get_battery_info(o.pmset)
        disk == get_disk_usage(disks)
    IN      [cpu |-> sys.cpu_usage,
             used_mem_mb |-> sys.used_memory \div KiB,
             total_mem_mb |-> sys.total_memory \div KiB,
             current_tab |-> "System",
             cpu_history |-> <<>>,
             ram_history |-> <<>>,
             networks |-> networks,
             down_mbps |-> Zero,
             up_mbps |-> Zero,
             down_history |-> <<>>,
             up_history |-> <<>>,
             battery_percent |-> battery[1],
             battery_charging |-> battery[2],
             battery_history |-> <<>>,
             disk_percent |-> disk[1],
             disk_used_gb |-> disk[2],
             disk_total_gb |-> disk[3],
             disk_history |-> <<>>,
             disks |-> disks,
             sys |-> sys]

\* Variant of new that leaves the histories empty
new_unsampled(o) == new_State(o)

new(o) == push_samples(new_State(o))

\* update, Message::Tick arm, up to the call of push_samples: the refreshes
\* and the writes of the readings.  o is the operating system at the time of
\* the tick, fail names the metric class whose refresh fails ("none" if none).
Tick_readings(st, o, fail) ==
    LET sys == refresh_sys(o)
        networks == networks_refresh(st.networks, o, fail # "network")
        disks == disks_refresh(st.disks, o, fail # "disk")
        delta == network_deltas(networks)
        battery == get_battery_info(o.pmset)
        disk == get_disk_usage(disks)
    IN      [st EXCEPT
                !.sys = sys,
                !.networks = networks,
                !.disks = disks,
                !.cpu = sys.cpu_usage,
                !.used_mem_mb = sys.used_memory \div KiB,
                !.total_mem_mb = sys.total_memory \div KiB,
                !.down_mbps = F32Div(F32Mul(as_f32(delta[1]), as_f32(8)), as_f32(1000000)),
                !.up_mbps = F32Div(F32Mul(as_f32(delta[2]), as_f32(8)), as_f32(1000000)),
                !.battery_percent = battery[1],
                !.battery_charging = battery[2],
                !.disk_percent = disk[1],
                !.disk_used_gb = disk[2],
                !.disk_total_gb = disk[3]]

\* Variant of the Tick arm that skips the metric whose refresh failed
update_Tick_failsoft(st, o, fail) ==
    LET p == push_samples(Tick_readings(st, o, fail))
    IN  IF fail = "network"
        THEN [p EXCEPT !.down_history = st.down_history, !.up_history = st.up_history,
                       !.down_mbps = st.down_mbps, !.up_mbps = st.up_mbps]
        ELSE IF fail = "disk"
        THEN [p EXCEPT !.disk_history = st.disk_history, !.disk_percent = st.disk_percent,
                       !.disk_used_gb = st.disk_used_gb, !.disk_total_gb = st.disk_total_gb]
        ELSE p

\* Variant of the Tick arm that pushes the samples before writing the readings
update_Tick_pushfirst(st, o, fail) == Tick_readings(push_samples(st), o, fail)

\* update, Message::Tick arm
update_Tick(st, o, fail) == push_samples(Tick_readings(st, o, fail))

\* Variants of the TabSelected arm
update_TabSelected_resample(st, tab) == push_samples([st EXCEPT !.current_tab = tab])

update_TabSelected_sticky(st, tab) ==
    IF st.current_tab = "Power" THEN st ELSE [st EXCEPT !.current_tab = tab]

\* update, Message::TabSelected arm
update_TabSelected(st, tab) == [st EXCEPT !.current_tab = tab]

update(st, message, o) ==
    IF message.type = "Tick"
    THEN update_Tick(st, o, message.fail)
    ELSE update_TabSelected(st, message.tab)

\* view: the RAM percentage shown next to the chart
ram_percent(st) ==
    IF st.total_mem_mb > 0
    THEN F32Mul(F32Div(as_f32(st.used_mem_mb), as_f32(st.total_mem_mb)), as_f32(100))
    ELSE Zero

\* f32::max(a, b): the larger of the two; a NaN operand is ignored
f32_max(a, b) ==
    IF a = NaN THEN b
    ELSE IF b = NaN THEN a
    ELSE IF a = Inf \/ b = Inf THEN Inf
    ELSE IF F32Lt(a, b) THEN b ELSE a

\* iter().copied().fold(init, f32::max)
RECURSIVE fold_max(_, _)
fold_max(init, h) ==
    IF h = <<>> THEN init ELSE fold_max(f32_max(init, h[1]), Tail(h))

\* view: the max_value of the download and of the upload chart
\* Variant of down_max: the fold starts at 0.0
down_max_unfloored(st) == fold_max(Zero, st.down_history)

down_max(st) == fold_max(as_f32(1), st.down_history)

up_max(st) == fold_max(as_f32(1), st.up_history)

\* view: the download and the upload chart handed to the canvas
net_down_chart(st) == [data |-> st.down_history, max_value |-> down_max(st)]

net_up_chart(st) == [data |-> st.up_history, max_value |-> up_max(st)]

\* Sparkline::draw: the path it strokes, as the sequence of builder calls
\* (<<>> when it returns the frame without stroking anything).
\* self is the Sparkline (data, max_value), bounds the canvas rectangle.
\* Variants: the guard admits a single sample; the sample is not clamped;
\* the step divides by the number of samples.
draw_single(self, bounds) ==
    IF Len(self.data) < 1 \/ F32Le(self.max_value, Zero) THEN <<>>
    ELSE LET step_x == IF Len(self.data) > 1
                       THEN F32Div(bounds.width, F32Sub(as_f32(Len(self.data)), as_f32(1)))
                       ELSE bounds.width
         IN  [k \in 1..Len(self.data) |->
                LET i == k - 1
                    x == F32Mul(as_f32(i), step_x)
                    clamped == clamp(self.data[k], Zero, self.max_value)
                    ratio == IF F32Lt(Zero, self.max_value)
                             THEN F32Div(clamped, self.max_value) ELSE Zero
                    y == F32Sub(bounds.height, F32Mul(ratio, bounds.height))
                IN  [op |-> IF i = 0 THEN "move_to" ELSE "line_to", point |-> <<x, y>>]]

draw_unclamped(self, bounds) ==
    IF Len(self.data) < 2 \/ F32Le(self.max_value, Zero) THEN <<>>
    ELSE LET step_x == IF Len(self.data) > 1
                       THEN F32Div(bounds.width, F32Sub(as_f32(Len(self.data)), as_f32(1)))
                       ELSE bounds.width
         IN  [k \in 1..Len(self.data) |->
                LET i == k - 1
                    x == F32Mul(as_f32(i), step_x)
                    ratio == IF F32Lt(Zero, self.max_value)
                             THEN F32Div(self.data[k], self.max_value) ELSE Zero
                    y == F32Sub(bounds.height, F32Mul(ratio, bounds.height))
                IN  [op |-> IF i = 0 THEN "move_to" ELSE "line_to", point |-> <<x, y>>]]

draw_step_len(self, bounds) ==
    IF Len(self.data) < 2 \/ F32Le(self.max_value, Zero) THEN <<>>
    ELSE LET step_x == IF Len(self.data) > 1
                       THEN F32Div(bounds.width, as_f32(Len(self.data)))
                       ELSE bounds.width
         IN  [k \in 1..Len(self.data) |->
                LET i == k - 1
                    x == F32Mul(as_f32(i), step_x)
                    clamped == clamp(self.data[k], Zero, self.max_value)
                    ratio == IF F32Lt(Zero, self.max_value)
                             THEN F32Div(clamped, self.max_value) ELSE Zero
                    y == F32Sub(bounds.height, F32Mul(ratio, bounds.height))
                IN  [op |-> IF i = 0 THEN "move_to" ELSE "line_to", point |-> <<x, y>>]]

draw(self, bounds) ==
    IF Len(self.data) < 2 \/ F32Le(self.max_value, Zero) THEN <<>>
    ELSE LET step_x == IF Len(self.data) > 1
                       THEN F32Div(bounds.width, F32Sub(as_f32(Len(self.data)), as_f32(1)))
                       ELSE bounds.width
         IN  [k \in 1..Len(self.data) |->
                LET i == k - 1
                    x == F32Mul(as_f32(i), step_x)
                    clamped == clamp(self.data[k], Zero, self.max_value)
                    ratio == IF F32Lt(Zero, self.max_value)
                             THEN F32Div(clamped, self.max_value) ELSE Zero
                    y == F32Sub(bounds.height, F32Mul(ratio, bounds.height))
                IN  [op |-> IF i = 0 THEN "move_to" ELSE "line_to", point |-> <<x, y>>]]

\* view: the tab buttons it creates, each sending TabSelected(tab) on press
create_tab_button(tab) == [type |-> "TabSelected", tab |-> tab, fail |-> "none"]
TabButtons == {create_tab_button(tab) : tab \in Tab}

\* subscription: the timer's message
TickMessage(fail) == [type |-> "Tick", tab |-> "none", fail |-> fail]

\* ------------------------------------------------------------------------
\* The operating system
\* ------------------------------------------------------------------------
Token(ends, parses, value) == [ends_percent |-> ends, parses |-> parses, value |-> value]

\* "Now drawing from 'AC Power'" / " -InternalBattery-0 (id=...) 85%; charging; ..."
PmsetCharging ==
    [macos |-> TRUE, command_ok |-> TRUE, utf8 |-> TRUE, ac_power |-> TRUE,
     lines |-> << [internal_battery |-> FALSE, has_percent |-> FALSE,
                   charging |-> FALSE, discharging |-> FALSE, parts |-> <<>>],
                  [internal_battery |-> TRUE, has_percent |-> TRUE,
                   charging |-> TRUE, discharging |-> FALSE,
                   parts |-> <<Token(FALSE, FALSE, 0), Token(TRUE, TRUE, 85)>>] >>]

\* "Now drawing from 'Battery Power'" / " -InternalBattery-0 (id=...) 40%; discharging; ..."
PmsetDischarging ==
    [macos |-> TRUE, command_ok |-> TRUE, utf8 |-> TRUE, ac_power |-> FALSE,
     lines |-> << [internal_battery |-> TRUE, has_percent |-> TRUE,
                   charging |-> TRUE, discharging |-> TRUE,
                   parts |-> <<Token(FALSE, FALSE, 0), Token(TRUE, TRUE, 40)>>] >>]

\* a desktop Mac: no InternalBattery line
PmsetNoBattery ==
    [macos |-> TRUE, command_ok |-> TRUE, utf8 |-> TRUE, ac_power |-> TRUE,
     lines |-> << [internal_battery |-> FALSE, has_percent |-> FALSE,
                   charging |-> FALSE, discharging |-> FALSE, parts |-> <<>>] >>]

\* the pmset command cannot be run
PmsetFailed ==
    [macos |-> TRUE, command_ok |-> FALSE, utf8 |-> TRUE, ac_power |-> FALSE, lines |-> <<>>]

\* not macOS
PmsetUnsupported ==
    [macos |-> FALSE, command_ok |-> FALSE, utf8 |-> TRUE, ac_power |-> FALSE, lines |-> <<>>]

Volume(total, available) == [total_space |-> total, available_space |-> available]

\* The operating system at startup
InitOs ==
    { [cpu |-> as_f32(0), used_memory |-> 4096 * KiB, total_memory |-> 8192 * KiB,
       net |-> << [rx |-> 60, tx |-> 30], [rx |-> 40, tx |-> 20] >>,
       disks |-> << Volume(GiB, GiB \div 2) >>,
       pmset |-> PmsetDischarging],
      [cpu |-> as_f32(25), used_memory |-> 0, total_memory |-> 0,
       net |-> << [rx |-> 0, tx |-> 0], [rx |-> 0, tx |-> 0] >>,
       disks |-> << >>,
       pmset |-> PmsetUnsupported] }

\* What the operating system does between two ticks: the new gauges, the
\* bytes each interface moved, and the refresh that fails at the tick.
OsEvent(cpu, used, total, rx, tx, disks, pmset, fail) ==
    [cpu |-> as_f32(cpu), used_memory |-> used, total_memory |-> total,
     rx |-> rx, tx |-> tx, disks |-> disks, pmset |-> pmset, fail |-> fail]

OsEvents ==
    { OsEvent(50, 4096 * KiB, 8192 * KiB, <<50, 30>>, <<20, 0>>,
              << Volume(GiB, GiB \div 2) >>, PmsetCharging, "none"),
      OsEvent(0, 0, 0, <<0, 0>>, <<0, 0>>,
              << >>, PmsetFailed, "none"),
      OsEvent(100, 512, 1000, <<0, 125000>>, <<250000, 0>>,
              << Volume(0, 0) >>, PmsetNoBattery, "none"),
      OsEvent(75, 2048 * KiB, 8192 * KiB, <<50, 30>>, <<20, 0>>,
              << Volume(GiB \div 2, GiB \div 4), Volume(GiB, GiB \div 4) >>,
              PmsetDischarging, "network"),
      OsEvent(10, 1024 * KiB, 8192 * KiB, <<1000, 0>>, <<0, 0>>,
              << Volume(GiB, 0) >>, PmsetCharging, "disk") }

OsStep(o, ev) ==
    [cpu |-> ev.cpu, used_memory |-> ev.used_memory, total_memory |-> ev.total_memory,
     net |-> [i \in 1..Len(o.net) |->
                [rx |-> o.net[i].rx + ev.rx[i], tx |-> o.net[i].tx + ev.tx[i]]],
     disks |-> ev.disks, pmset |-> ev.pmset]

\* A steady workload for long runs: the n-th tick's readings are all
\* different from those of the 125 ticks around it.
Workload(n) ==
    OsEvent(n % 101, n * KiB, 1000 * KiB, <<n, 2 * n>>, <<3 * n, 0>>,
            << Volume(1000 * KiB, (n % 1000) * KiB) >>,
            IF n % 2 = 0 THEN PmsetCharging ELSE PmsetDischarging, "none")

\* ------------------------------------------------------------------------
\* The readings of a sampling event, as the charts are meant to show them
\* ------------------------------------------------------------------------
Reading(st) ==
    [cpu |-> st.cpu, ram |-> ram_percent(st), down |-> st.down_mbps, up |-> st.up_mbps,
     battery |-> st.battery_percent, disk |-> st.disk_percent]

Metrics == {"cpu", "ram", "down", "up", "battery", "disk"}

history(st, m) ==
    CASE m = "cpu" -> st.cpu_history
      [] m = "ram" -> st.ram_history
      [] m = "down" -> st.down_history
      [] m = "up" -> st.up_history
      [] m = "battery" -> st.battery_history
      [] m = "disk" -> st.disk_history

\* ------------------------------------------------------------------------
\* Behaviour
\* ------------------------------------------------------------------------
\* No function is called on its own
NoCall == [fn |-> "none", arg |-> <<>>, done |-> TRUE, ret |-> <<>>]

\* A call of fn with input arg that has not run yet
Pending(fn, arg) == [fn |-> fn, arg |-> arg, done |-> FALSE, ret |-> <<>>]

\* The application right after new()
Startup ==
    /\ os \in InitOs
    /\ state = new(os)
    /\ msg = [type |-> "Start", tab |-> "none", fail |-> "none"]
    /\ ticks = 0
    /\ sampled = <<Reading(state)>>

Init == Startup /\ call = NoCall

\* the timer fires: update(state, Message::Tick)
Tick(ev) ==
    /\ os' = OsStep(os, ev)
    /\ msg' = TickMessage(ev.fail)
    /\ state' = update(state, msg', os')
    /\ ticks' = ticks + 1
    /\ sampled' = Append(sampled, Reading(state'))
    /\ UNCHANGED call

\* a tab button is pressed: update(state, Message::TabSelected(tab))
TabSelected(tab) ==
    /\ msg' = create_tab_button(tab)
    /\ state' = update(state, msg', os)
    /\ UNCHANGED <<os, ticks, sampled, call>>

TickAny == ticks < MaxTicks /\ \E ev \in OsEvents : Tick(ev)

TickLong == ticks < MaxTicksLong /\ Tick(Workload(ticks + 1))

PressTab == \E tab \in Tab : TabSelected(tab)

Next == TickAny \/ PressTab

NextLong == TickLong \/ PressTab

Spec == Init /\ [][Next]_vars

SpecLong == Init /\ [][NextLong]_vars

TypeOK ==
    /\ state.current_tab \in Tab
    /\ ticks \in Nat
    /\ Len(sampled) = ticks + 1

\* ------------------------------------------------------------------------
\* Single calls of get_battery_info on drawn pmset outputs
\* ------------------------------------------------------------------------
SeqsUpTo(S, n) == UNION {[1..k -> S] : k \in 0..n}

\* "word", "n/a%" and "85%;"
Tokens == {Token(FALSE, FALSE, 0), Token(TRUE, FALSE, 0), Token(TRUE, TRUE, 85)}

\* Neither, "charging", "discharging" (which contains "charging")
ChargingWords == {<<FALSE, FALSE>>, <<TRUE, FALSE>>, <<TRUE, TRUE>>}

\* The lines pmset can print: a token that ends with '%' puts a '%' in its
\* line; only InternalBattery lines carry a charging word.
PmsetLines ==
    { l \in { [internal_battery |-> ib, has_percent |-> hp,
                charging |-> c[1], discharging |-> c[2], parts |-> p] :
                  ib \in BOOLEAN, hp \in BOOLEAN, c \in ChargingWords,
                  p \in SeqsUpTo(Tokens, MaxParts) } :
        /\ (\E i \in 1..Len(l.parts) : l.parts[i].ends_percent) => l.has_percent
        /\ ~l.internal_battery => ~l.charging }

PmsetNotUtf8 ==
    [macos |-> TRUE, command_ok |-> TRUE, utf8 |-> FALSE, ac_power |-> FALSE, lines |-> <<>>]

PmsetOutputs ==
    {PmsetUnsupported, PmsetFailed, PmsetNotUtf8}
    \cup { [macos |-> TRUE, command_ok |-> TRUE, utf8 |-> TRUE, ac_power |-> ac, lines |-> ls] :
              ac \in BOOLEAN, ls \in SeqsUpTo(PmsetLines, MaxLines) }

BatteryInputs ==
    { [feature_battery |-> TRUE, pmset |-> p] : p \in PmsetOutputs }
    \cup { [feature_battery |-> FALSE, pmset |-> p] : p \in {PmsetCharging, PmsetUnsupported} }

InitBattery ==
    /\ Startup
    /\ call \in {Pending("get_battery_info", a) : a \in BatteryInputs}

RunBattery ==
    /\ call.fn = "get_battery_info"
    /\ ~call.done
    /\ call' = [call EXCEPT !.done = TRUE,
                            !.ret = lib_get_battery_info(call.arg.feature_battery, call.arg.pmset)]
    /\ UNCHANGED <<state, os, msg, ticks, sampled>>

NextBattery == RunBattery

SpecBattery == InitBattery /\ [][NextBattery]_vars

\* ------------------------------------------------------------------------
\* Single calls of Sparkline::draw on drawn samples, maxima and canvas sizes
\* ------------------------------------------------------------------------
SampleValues == {as_f32(-10), as_f32(0), as_f32(50), as_f32(100), as_f32(150)}

MaxValues == {as_f32(-5), as_f32(0), as_f32(40), as_f32(100)}

CanvasSizes == { [width |-> as_f32(200), height |-> as_f32(100)],
                 [width |-> as_f32(300), height |-> as_f32(90)] }

SparklineInputs ==
    { [data |-> d, max_value |-> mx, bounds |-> b] :
        d \in SeqsUpTo(SampleValues, MaxSamples), mx \in MaxValues, b \in CanvasSizes }

InitSparkline ==
    /\ Startup
    /\ call \in {Pending("draw", a) : a \in SparklineInputs}

RunSparkline ==
    /\ call.fn = "draw"
    /\ ~call.done
    /\ call' = [call EXCEPT !.done = TRUE,
                            !.ret = draw([data |-> call.arg.data, max_value |-> call.arg.max_value],
                                         call.arg.bounds)]
    /\ UNCHANGED <<state, os, msg, ticks, sampled>>

NextSparkline == RunSparkline

SpecSparkline == InitSparkline /\ [][NextSparkline]_vars

\* ------------------------------------------------------------------------
\* Single calls of get_disk_usage on drawn volume lists
\* ------------------------------------------------------------------------
DiskSizes == {0, GiB \div 4, GiB \div 2}

\* Every (total_space, available_space) pair, those with more available
\* than total space included
Volumes == {Volume(t, a) : t \in DiskSizes, a \in DiskSizes}

DiskInputs ==
    { [disks |-> d, overflow_checks |-> oc] :
        d \in SeqsUpTo(Volumes, MaxVolumes), oc \in BOOLEAN }

InitDisk ==
    /\ Startup
    /\ call \in {Pending("get_disk_usage", a) : a \in DiskInputs}

RunDisk ==
    /\ call.fn = "get_disk_usage"
    /\ ~call.done
    /\ call' = [call EXCEPT !.done = TRUE,
                            !.ret = get_disk_usage_u64(call.arg.disks, call.arg.overflow_checks)]
    /\ UNCHANGED <<state, os, msg, ticks, sampled>>

NextDisk == RunDisk

SpecDisk == InitDisk /\ [][NextDisk]_vars

\* ------------------------------------------------------------------------
\* Single push-then-trim steps on drawn buffers and capacities
\* ------------------------------------------------------------------------
TrimValues == {as_f32(0), as_f32(25), as_f32(50), as_f32(100)}

\* A capacity, a buffer that respects it, and the value to push
TrimInputs ==
    { [capacity |-> c, history |-> h, value |-> v] :
        c \in 0..MaxCapacity, h \in SeqsUpTo(TrimValues, MaxCapacity), v \in TrimValues }

InitTrim ==
    /\ Startup
    /\ call \in {Pending("push_then_trim", a) : a \in {b \in TrimInputs : Len(b.history) <= b.capacity}}

RunTrim ==
    /\ call.fn = "push_then_trim"
    /\ ~call.done
    /\ call' = [call EXCEPT !.done = TRUE,
                            !.ret = push_then_trim(call.arg.history, call.arg.value,
                                                   call.arg.capacity)]
    /\ UNCHANGED <<state, os, msg, ticks, sampled>>

NextTrim == RunTrim

SpecTrim == InitTrim /\ [][NextTrim]_vars

\* ------------------------------------------------------------------------
\* Properties
\* ------------------------------------------------------------------------
\* The last n elements of s (all of s when it has fewer)
LastN(s, n) == SubSeq(s, Len(s) - Min(n, Len(s)) + 1, Len(s))

\* The values of metric m over all sampling events so far, oldest first
Sampled(m) == [i \in 1..Len(sampled) |-> sampled[i][m]]

IsTickStep == ticks' = ticks + 1

\* C1: after startup and after any sequence of Tick and TabSelected events,
\* every rolling history (cpu, ram, down, up, battery, disk) has length at
\* most HISTORY = 120.
C1_HistoryBounded == \A m \in Metrics : Len(history(state, m)) <= HISTORY

C1_Witness ==
    /\ ticks > HISTORY
    /\ msg.type = "TabSelected"
    /\ \A m \in Metrics : Len(history(state, m)) = HISTORY

\* C2: each rolling history holds exactly the most recent min(pushes, 120)
\* pushed values, oldest first and newest at the tail, and a push only ever
\* evicts from the head: what is kept of the old history is a suffix of it.
C2_Retained ==
    \A m \in Metrics : history(state, m) = LastN(Sampled(m), Min(Len(sampled), HISTORY))

C2_HeadEviction ==
    \A m \in Metrics :
        LET h == history(state, m)
            kept == SubSeq(history(state', m), 1, Len(history(state', m)) - (ticks' - ticks))
        IN  /\ Len(kept) <= Len(h)
            /\ kept = SubSeq(h, Len(h) - Len(kept) + 1, Len(h))

C2_MostRecentRetained == []C2_Retained /\ [][C2_HeadEviction]_vars

C2_Witness ==
    /\ ticks > HISTORY + 1
    /\ Len(state.ram_history) = HISTORY
    /\ state.ram_history[1] = sampled[Len(sampled) - HISTORY + 1].ram
    /\ state.ram_history[1] # sampled[1].ram
    /\ Last(state.ram_history) = Last(sampled).ram

\* C3: handling TabSelected(tab) sets the selected view to tab and leaves
\* every reading, every provider handle and every rolling history as it was;
\* no sampling event happens.
C3_TabSelectedFrame ==
    [][msg'.type = "TabSelected" =>
          /\ state' = [state EXCEPT !.current_tab = msg'.tab]
          /\ sampled' = sampled
          /\ ticks' = ticks
          /\ os' = os]_vars

C3_Witness ==
    /\ msg.type = "TabSelected"
    /\ msg.tab = "Power"
    /\ state.current_tab = "Power"
    /\ ticks >= 1
    /\ Len(state.cpu_history) = ticks + 1

\* C4: the selected view changes only through TabSelected events (a Tick
\* never changes it), and in every reachable state each of System, Network
\* and Power is reached by one TabSelected event, which is always enabled.
C4_EveryTabOneStepAway ==
    \A tab \in Tab : ENABLED (TabSelected(tab) /\ state'.current_tab = tab)

C4_OnlyTabSelectedChangesView ==
    /\ IsTickStep => state'.current_tab = state.current_tab
    /\ state'.current_tab # state.current_tab =>
          /\ msg' \in TabButtons
          /\ state'.current_tab = msg'.tab

C4_SelectedView == []C4_EveryTabOneStepAway /\ [][C4_OnlyTabSelectedChangesView]_vars

C4_Witness ==
    /\ msg.type = "TabSelected"
    /\ state.current_tab = "Network"
    /\ ticks = MaxTicks

\* C5: every Tick reads every metric class from the provider and appends
\* exactly one new sample, the metric's new reading, to each history; the
\* readings and the histories after the Tick are the same whichever view is
\* selected.
AppendedOne(h, h2, v) == h2 = LastN(Append(h, v), HISTORY)

C5_TickSamples ==
    /\ state'.sys = refresh_sys(os')
    /\ state'.cpu = os'.cpu
    /\ state'.used_mem_mb = os'.used_memory \div KiB
    /\ state'.total_mem_mb = os'.total_memory \div KiB
    /\ msg'.fail # "network" =>
          \A i \in 1..Len(os'.net) :
              /\ total_received(state'.networks[i]) = os'.net[i].rx
              /\ total_transmitted(state'.networks[i]) = os'.net[i].tx
    /\ msg'.fail # "disk" => state'.disks = os'.disks
    /\ <<state'.battery_percent, state'.battery_charging>> = get_battery_info(os'.pmset)
    /\ \A m \in Metrics : AppendedOne(history(state, m), history(state', m), Reading(state')[m])

C5_ViewIndependent ==
    \A tab \in Tab :
        LET other == update([state EXCEPT !.current_tab = tab], msg', os')
        IN  /\ Reading(other) = Reading(state')
            /\ \A m \in Metrics : history(other, m) = history(state', m)

C5_SamplingIgnoresView == [][IsTickStep => C5_TickSamples /\ C5_ViewIndependent]_vars

C5_Witness ==
    /\ msg.type = "Tick"
    /\ state.current_tab = "Power"
    /\ ticks = 2
    /\ \A m \in Metrics : Len(history(state, m)) = 3

C8_ZeroTotalsGiveZeroPercent ==
    /\ state.sys.total_memory = 0 =>
          /\ ram_percent(state) = Zero
          /\ Last(state.ram_history) = Zero
    /\ SumSeq([i \in 1..Len(state.disks) |-> state.disks[i].total_space]) = 0 =>
          /\ state.disk_percent = Zero
          /\ Last(state.disk_history) = Zero
          /\ get_disk_usage(state.disks) = <<Zero, 0, 0>>
    /\ \A m \in Metrics : \A i \in 1..Len(history(state, m)) : IsFinite(history(state, m)[i])

C8_Witness ==
    /\ msg.type = "Tick"
    /\ state.sys.total_memory = 0
    /\ state.disks = <<>>
    /\ Last(state.ram_history) = Zero
    /\ Last(state.disk_history) = Zero

\* C9 (as stated): if the provider's refresh for a metric fails on a tick,
\* that tick pushes no entry to that metric's history and leaves the metric's
\* reading untouched, so the history is one entry shorter than the CPU and
\* RAM histories.
FailedMetrics(fail) ==
    CASE fail = "network" -> {"down", "up"}
      [] fail = "disk" -> {"disk"}
      [] OTHER -> {}

CounterPair(networks) ==
    <<SumSeq([i \in 1..Len(networks) |-> total_received(networks[i])]),
      SumSeq([i \in 1..Len(networks) |-> total_transmitted(networks[i])])>>

OsCounterPair(o) ==
    <<SumSeq([i \in 1..Len(o.net) |-> o.net[i].rx]),
      SumSeq([i \in 1..Len(o.net) |-> o.net[i].tx])>>

Rate(bytes) == Norm(bytes * 8, 1000000)

C10_DeltaOfTick ==
    LET previous == CounterPair(state.networks)
        current == OsCounterPair(os')
        delta == network_deltas(state'.networks)
        more_tx == [i \in 1..Len(state'.networks) |->
                       [state'.networks[i] EXCEPT !.tx_bytes = @ + i]]
        more_rx == [i \in 1..Len(state'.networks) |->
                       [state'.networks[i] EXCEPT !.rx_bytes = @ + i]]
    IN  /\ delta = <<current[1] - previous[1], current[2] - previous[2]>>
        /\ state'.down_mbps = Rate(current[1] - previous[1])
        /\ state'.up_mbps = Rate(current[2] - previous[2])
        /\ network_deltas(more_tx)[1] = delta[1]
        /\ network_deltas(more_rx)[2] = delta[2]
        /\ (previous = <<100, 50>> /\ current = <<180, 70>>) => delta = <<80, 20>>

C10_NetworkDelta == [][IsTickStep /\ msg'.fail # "network" => C10_DeltaOfTick]_vars

C10_Witness ==
    /\ msg.type = "Tick"
    /\ msg.fail = "none"
    /\ SumSeq([i \in 1..Len(state.networks) |-> state.networks[i].old_rx]) = 100
    /\ SumSeq([i \in 1..Len(state.networks) |-> state.networks[i].old_tx]) = 50
    /\ CounterPair(state.networks) = <<180, 70>>
    /\ network_deltas(state.networks) = <<80, 20>>
    /\ state.down_mbps = <<2, 3125>>
    /\ state.up_mbps = <<1, 6250>>

\* C12: the battery query returns the fixed default (100.0, not charging),
\* a normal value and never an error, whenever no battery reading is
\* available: battery feature disabled, not macOS, the pmset command failing
\* (or printing invalid UTF-8), or no InternalBattery line with a percentage
\* that parses.
HasBatteryReading(pmset) ==
    \E i \in 1..Len(pmset.lines) :
        /\ pmset.lines[i].internal_battery
        /\ pmset.lines[i].has_percent
        /\ \E j \in 1..Len(pmset.lines[i].parts) :
              pmset.lines[i].parts[j].ends_percent /\ pmset.lines[i].parts[j].parses

NoBatteryReading(a) ==
    \/ ~a.feature_battery
    \/ ~a.pmset.macos
    \/ ~a.pmset.command_ok
    \/ ~a.pmset.utf8
    \/ ~HasBatteryReading(a.pmset)

C12_DefaultWhenNoBattery ==
    (call.fn = "get_battery_info" /\ call.done) =>
        /\ IsFinite(call.ret[1])
        /\ call.ret[2] \in BOOLEAN
        /\ NoBatteryReading(call.arg) => call.ret = <<as_f32(100), FALSE>>

C12_Witness ==
    /\ call.fn = "get_battery_info" /\ call.done
    /\ call.arg.feature_battery /\ call.arg.pmset.macos
    /\ call.arg.pmset.command_ok /\ call.arg.pmset.utf8
    /\ call.arg.pmset.ac_power
    /\ Len(call.arg.pmset.lines) = 2
    /\ call.arg.pmset.lines[2].internal_battery
    /\ call.arg.pmset.lines[2].parts = <<Token(TRUE, FALSE, 0)>>
    /\ call.ret = <<as_f32(100), FALSE>>

\* C13: the sparkline path is empty (no move, no line-to) whenever there are
\* fewer than 2 samples or max_value <= 0, and non-empty otherwise.
Drawn == call.fn = "draw" /\ call.done

C13_EmptyPath ==
    Drawn => (call.ret = <<>> <=> (Len(call.arg.data) < 2 \/ call.arg.max_value[1] <= 0))

C13_Witness ==
    /\ Drawn
    /\ call.arg.data = <<as_f32(50)>>
    /\ call.arg.max_value = as_f32(100)
    /\ call.ret = <<>>

\* C14: in a non-empty path over a canvas of height H every point's y is
\* H - (clamp(sample, 0, max_value) / max_value) * H: it lies in [0, H], a
\* larger sample never plots lower (larger y) than a smaller one, a sample
\* below 0 plots at H and one above max_value at 0; samples [0, 50, 100] with
\* max 100 give the y-coordinates [H, H/2, 0].
\* (The samples, maxima and sizes drawn are whole numbers n, held as <<n, 1>>.)
ExpectedY(sample, mx, H) ==
    LET c == IF sample < 0 THEN 0 ELSE IF sample > mx THEN mx ELSE sample
    IN  Norm(H * (mx - c), mx)

C14_VerticalMapping ==
    (Drawn /\ call.ret # <<>>) =>
        LET H == call.arg.bounds.height[1]
            mx == call.arg.max_value[1]
            Y(k) == call.ret[k].point[2]
            S(k) == call.arg.data[k][1]
        IN  /\ \A k \in 1..Len(call.ret) :
                  /\ Y(k) = ExpectedY(S(k), mx, H)
                  /\ F32Le(Zero, Y(k)) /\ F32Le(Y(k), as_f32(H))
                  /\ S(k) < 0 => Y(k) = as_f32(H)
                  /\ S(k) > mx => Y(k) = Zero
            /\ \A j, k \in 1..Len(call.ret) : S(j) <= S(k) => F32Le(Y(k), Y(j))
            /\ (call.arg.data = <<as_f32(0), as_f32(50), as_f32(100)>> /\ mx = 100) =>
                  <<Y(1), Y(2), Y(3)>> = <<as_f32(H), Norm(H, 2), Zero>>

C14_Witness ==
    /\ Drawn
    /\ call.arg.data = <<as_f32(0), as_f32(50), as_f32(100)>>
    /\ call.arg.max_value = as_f32(100)
    /\ call.arg.bounds.height = as_f32(90)
    /\ [k \in 1..3 |-> call.ret[k].point[2]] = <<as_f32(90), as_f32(45), as_f32(0)>>

\* C15: a non-empty path over n >= 2 samples and canvas width W has exactly
\* n points in sample order, the first a move and each of the other n - 1 a
\* line-to, the i-th (0-based) at x = i * W / (n - 1): the first at x = 0 and
\* the last at x = W.
C15_HorizontalSpacing ==
    (Drawn /\ call.ret # <<>>) =>
        LET n == Len(call.arg.data)
            W == call.arg.bounds.width[1]
        IN  /\ n >= 2
            /\ Len(call.ret) = n
            /\ call.ret[1].op = "move_to"
            /\ \A k \in 2..n : call.ret[k].op = "line_to"
            /\ \A k \in 1..n : call.ret[k].point[1] = Norm((k - 1) * W, n - 1)
            /\ call.ret[1].point[1] = Zero
            /\ call.ret[n].point[1] = as_f32(W)
            /\ \A k \in 1..n :
                  call.ret[k].point[2]
                      = ExpectedY(call.arg.data[k][1], call.arg.max_value[1],
                                  call.arg.bounds.height[1])

C15_Witness ==
    /\ Drawn
    /\ Len(call.arg.data) = 3
    /\ call.arg.bounds.width = as_f32(300)
    /\ Len(call.ret) = 3
    /\ [k \in 1..3 |-> call.ret[k].op] = <<"move_to", "line_to", "line_to">>
    /\ [k \in 1..3 |-> call.ret[k].point[1]] = <<as_f32(0), as_f32(150), as_f32(300)>>

\* C17: each Tick writes every field of the Reading from the provider before
\* pushing, so after startup and after every event the newest (tail) element
\* of each history is the value derived from the current Reading of its
\* metric (cpu, ram percent, down rate, up rate, battery percent, disk
\* percent).
C17_TailIsReading ==
    \A m \in Metrics : Last(history(state, m)) = Reading(state)[m]

C17_TickWritesReading ==
    /\ state'.cpu = state'.sys.cpu_usage
    /\ state'.used_mem_mb = state'.sys.used_memory \div KiB
    /\ state'.total_mem_mb = state'.sys.total_memory \div KiB
    /\ state'.down_mbps = Rate(network_deltas(state'.networks)[1])
    /\ state'.up_mbps = Rate(network_deltas(state'.networks)[2])
    /\ <<state'.battery_percent, state'.battery_charging>> = get_battery_info(os'.pmset)
    /\ <<state'.disk_percent, state'.disk_used_gb, state'.disk_total_gb>>
          = get_disk_usage(state'.disks)
    /\ state'.sys = refresh_sys(os')

C17_ReadingThenPush == []C17_TailIsReading /\ [][IsTickStep => C17_TickWritesReading]_vars

C17_Witness ==
    /\ msg.type = "Tick"
    /\ ticks = 2
    /\ \A m \in {"cpu", "ram", "down", "battery", "disk"} : sampled[2][m] # sampled[3][m]
    /\ \A m \in Metrics : Last(history(state, m)) = sampled[3][m]

\* C18: the memory readings are the provider's used and total memory, each
\* divided by 1024 rounding down, and the disk gigabytes are the summed used
\* and total bytes, each divided by 1,073,741,824 rounding down; with 4096
\* used and 8192 total in the stored unit the RAM percentage is exactly 50.
IsFloorOf(q, x, d) == q * d <= x /\ x - q * d < d

C18_UnitConversions ==
    LET total_bytes == SumSeq([i \in 1..Len(state.disks) |-> state.disks[i].total_space])
        used_bytes == SumSeq([i \in 1..Len(state.disks) |->
                                state.disks[i].total_space - state.disks[i].available_space])
    IN  /\ IsFloorOf(state.used_mem_mb, state.sys.used_memory, 1024)
        /\ IsFloorOf(state.total_mem_mb, state.sys.total_memory, 1024)
        /\ IsFloorOf(state.disk_total_gb, total_bytes, 1073741824)
        /\ IsFloorOf(state.disk_used_gb, used_bytes, 1073741824)
        /\ (state.used_mem_mb = 4096 /\ state.total_mem_mb = 8192) =>
              /\ ram_percent(state) = as_f32(50)
              /\ Last(state.ram_history) = as_f32(50)

C18_Witness ==
    /\ msg.type = "Tick"
    /\ msg.fail = "none"
    /\ state.used_mem_mb = 4096 /\ state.total_mem_mb = 8192
    /\ Last(state.ram_history) = as_f32(50)
    /\ state.disks = <<Volume(GiB, GiB \div 2)>>
    /\ state.disk_total_gb = 1 /\ state.disk_used_gb = 0

\* C19 (as stated): get_disk_usage does not underflow or panic for any volume
\* list, a volume whose available space exceeds its total space included.
DiskCalled == call.fn = "get_disk_usage" /\ call.done

C19_NoArithmeticCrash ==
    DiskCalled => (call.ret.status = "returned" /\ ~call.ret.wrapped)

\* C20: get_disk_usage adds up the total bytes and the used bytes (total
\* minus available, per volume) of all volumes and reports used / total * 100
\* (0 when the total is 0) with both sums in whole gigabytes; whenever every
\* volume has available <= total, the percentage lies in [0, 100] and the
\* used gigabytes do not exceed the total gigabytes.
RECURSIVE TotalBytes(_)
TotalBytes(disks) ==
    IF disks = <<>> THEN 0 ELSE disks[1].total_space + TotalBytes(Tail(disks))

RECURSIVE AvailableBytes(_)
AvailableBytes(disks) ==
    IF disks = <<>> THEN 0 ELSE disks[1].available_space + AvailableBytes(Tail(disks))

ExpectedPercent(used, total) ==
    IF total = 0 THEN Zero
    ELSE LET g == GCD(used, total) IN Norm((used \div g) * 100, total \div g)

C20_DiskUsage ==
    (DiskCalled /\ ~Underflows(call.arg.disks)) =>
        LET total == TotalBytes(call.arg.disks)
            used == total - AvailableBytes(call.arg.disks)
            percent == call.ret.value[1]
            used_gb == call.ret.value[2]
            total_gb == call.ret.value[3]
        IN  /\ call.ret.status = "returned"
            /\ percent = ExpectedPercent(used, total)
            /\ IsFloorOf(used_gb, used, 1073741824)
            /\ IsFloorOf(total_gb, total, 1073741824)
            /\ F32Le(Zero, percent) /\ F32Le(percent, as_f32(100))
            /\ used_gb <= total_gb

C20_Witness ==
    /\ DiskCalled
    /\ call.arg.disks = <<Volume(GiB \div 2, GiB \div 4), Volume(GiB \div 2, 0)>>
    /\ call.ret.value = <<as_f32(75), 0, 1>>

\* C21: the max_value of the download and of the upload chart is the largest
\* sample of its history, or 1.0 if no sample exceeds 1.0: it is strictly
\* positive and no sample of the history exceeds it, so a rate chart with 2
\* or more samples always strokes a path and no non-negative sample of it is
\* changed by the clamp.
RateBounds == [width |-> as_f32(300), height |-> as_f32(80)]

RateChartOk(chart) ==
    LET data == chart.data
        max_value == chart.max_value
        samples == {data[k] : k \in 1..Len(data)}
    IN  /\ max_value \in samples \cup {as_f32(1)}
        /\ F32Le(as_f32(1), max_value)
        /\ F32Lt(Zero, max_value)
        /\ \A v \in samples : F32Le(v, max_value)
        /\ Len(data) >= 2 => Len(draw(chart, RateBounds)) = Len(data)
        /\ \A v \in samples : F32Le(Zero, v) => clamp(v, Zero, max_value) = v

C21_RateChartMax == RateChartOk(net_down_chart(state)) /\ RateChartOk(net_up_chart(state))

C21_Witness ==
    /\ Len(state.up_history) >= 2
    /\ up_max(state) = as_f32(2)
    /\ \E k \in 1..Len(state.up_history) : state.up_history[k] = Zero
    /\ down_max(state) = as_f32(1)
    /\ \E k \in 1..Len(state.down_history) :
          F32Lt(Zero, state.down_history[k]) /\ F32Lt(state.down_history[k], as_f32(1))
    /\ draw(net_down_chart(state), RateBounds) # <<>>

\* C22: after startup and after every Tick and TabSelected event the six
\* rolling histories (cpu, ram, down, up, battery, disk) have one common
\* length, and the push of a Tick evicts at most one element of each: a
\* history is one longer after the push, or as long as before.
C22_SameLength ==
    \A m \in Metrics : Len(history(state, m)) = Len(state.cpu_history)

Evicted(m) == Len(history(state, m)) + 1 - Len(history(state', m))

C22_AtMostOneEvicted ==
    IsTickStep => \A m \in Metrics : Evicted(m) \in {0, 1}

C22_HistoriesInStep == []C22_SameLength /\ [][C22_AtMostOneEvicted]_vars

C22_Witness ==
    /\ msg.type = "TabSelected"
    /\ ticks = HISTORY + 2
    /\ \A m \in Metrics : Len(history(state, m)) = HISTORY
    /\ \A m \in Metrics : history(state, m)[1] = sampled[Len(sampled) - HISTORY + 1][m]

\* C23: the capacity a push-then-trim step works with is the same before and
\* after the step, the step never panics, and it is right at the edge
\* capacities: with capacity 0 the buffer is empty after the push, with
\* capacity 1 it holds exactly the value pushed.
TrimCalled == call.fn = "push_then_trim" /\ call.done

C23_EdgeCapacityResult ==
    TrimCalled =>
        /\ call.ret.status = "returned"
        /\ Len(call.ret.value) <= call.arg.capacity
        /\ call.arg.capacity = 0 => call.ret.value = <<>>
        /\ call.arg.capacity = 1 => call.ret.value = <<call.arg.value>>

C23_CapacityFixed == call.fn = "push_then_trim" => call'.arg.capacity = call.arg.capacity

C23_EdgeCapacities == []C23_EdgeCapacityResult /\ [][C23_CapacityFixed]_vars

C23_Witness ==
    /\ TrimCalled
    /\ call.arg.capacity = 1
    /\ call.arg.history = <<as_f32(25)>>
    /\ call.arg.value = as_f32(50)
    /\ call.ret.value = <<as_f32(50)>>

====
